---- MODULE Spec2Model ----
(***************************************************************************)
(* Proxmox QM actions of the BlockHost root agent                          *)
(* (src/root-agent-actions/qm.py): the nine registered actions, their      *)
(* parameter validation, the argv they hand to the executor and the        *)
(* mapping of the execution result to the response.                        *)
(*                                                                         *)
(* A Python string is a sequence of one-character strings, so that         *)
(* startswith, the anchored regular expressions, str() and f-string        *)
(* concatenation are computed character by character.  Literal message     *)
(* texts of the source are written as a single piece, e.g.                 *)
(* <<"Image not found: ">>, and concatenated with \o.                      *)
(***************************************************************************)
EXTENDS Integers, Sequences, FiniteSets, TLC

VARIABLES fs, pc, req, call, runs, resps, checks, probes, result

vars == <<fs, pc, req, call, runs, resps, checks, probes, result>>

(***************************************************************************)
(* Bounds of the model.                                                    *)
(***************************************************************************)
NProcs == 2
MaxArgs == 2

Procs == 1..NProcs

(***************************************************************************)
(* Strings.                                                                *)
(***************************************************************************)
Lower == {"a","b","c","d","e","f","g","h","i","j","k","l","m",
          "n","o","p","q","r","s","t","u","v","w","x","y","z"}
Upper == {"A","B","C","D","E","F","G","H","I","J","K","L","M",
          "N","O","P","Q","R","S","T","U","V","W","X","Y","Z"}
Digit == {"0","1","2","3","4","5","6","7","8","9"}
DigitSeq == <<"0","1","2","3","4","5","6","7","8","9">>
NL == "\n"

\* str.startswith
StartsWith(s, pre) ==
    /\ Len(s) >= Len(pre)
    /\ SubSeq(s, 1, Len(pre)) = pre

\* sub occurs in s as a contiguous run of characters
Contains(s, sub) ==
    \E i \in 0..(Len(s) - Len(sub)) : SubSeq(s, i + 1, i + Len(sub)) = sub

AllIn(s, chars) == \A i \in 1..Len(s) : s[i] \in chars

RECURSIVE NatToStr(_)
NatToStr(n) ==
    IF n < 10 THEN <<DigitSeq[n + 1]>>
    ELSE NatToStr(n \div 10) \o <<DigitSeq[(n % 10) + 1]>>

\* str(n) of an int
IntToStr(n) == IF n < 0 THEN <<"-">> \o NatToStr(0 - n) ELSE NatToStr(n)

DigitVal(c) == CHOOSE d \in 0..9 : DigitSeq[d + 1] = c

RECURSIVE StrToNat(_)
StrToNat(s) ==
    IF Len(s) = 0 THEN 0
    ELSE 10 * StrToNat(SubSeq(s, 1, Len(s) - 1)) + DigitVal(s[Len(s)])

\* the strings a "$"-anchored pattern body may have to cover: s itself, and s
\* without its final newline
DollarBodies(s) ==
    {s} \cup (IF Len(s) > 0 /\ s[Len(s)] = NL
              THEN {SubSeq(s, 1, Len(s) - 1)} ELSE {})

(***************************************************************************)
(* Values of a params mapping as decoded from the request.                 *)
(***************************************************************************)
JStr(s) == [t |-> "str", v |-> s]
JInt(n) == [t |-> "int", v |-> n]
JList(xs) == [t |-> "list", v |-> xs]
JDict(kvs) == [t |-> "dict", v |-> kvs]
Absent == [t |-> "absent", v |-> <<>>]

IsStr(x) == x.t = "str"
IsList(x) == x.t = "list"
IsDict(x) == x.t = "dict"
Hashable(x) == x.t \in {"str", "int"}

\* params.get(key, default)
Get(params, key, default) ==
    IF params[key] = Absent THEN default ELSE params[key]

\* truthiness of a value
Truthy(x) ==
    CASE x.t = "int" -> x.v # 0
      [] x.t = "absent" -> FALSE
      [] OTHER -> Len(x.v) > 0

RECURSIVE PyStr(_), PyRepr(_), JoinRepr(_, _), JoinItems(_, _)
\* str(x)
PyStr(x) ==
    CASE x.t = "str" -> x.v
      [] x.t = "int" -> IntToStr(x.v)
      [] x.t = "list" -> <<"[">> \o JoinRepr(x.v, 1) \o <<"]">>
      [] x.t = "dict" -> <<"{">> \o JoinItems(x.v, 1) \o <<"}">>
      [] OTHER -> <<"None">>
\* repr(x)
PyRepr(x) == IF x.t = "str" THEN <<"'">> \o x.v \o <<"'">> ELSE PyStr(x)
JoinRepr(xs, i) ==
    IF i > Len(xs) THEN <<>>
    ELSE PyRepr(xs[i]) \o (IF i < Len(xs) THEN <<",", " ">> ELSE <<>>)
                       \o JoinRepr(xs, i + 1)
JoinItems(kvs, i) ==
    IF i > Len(kvs) THEN <<>>
    ELSE PyRepr(kvs[i][1]) \o <<":", " ">> \o PyRepr(kvs[i][2])
         \o (IF i < Len(kvs) THEN <<",", " ">> ELSE <<>>)
         \o JoinItems(kvs, i + 1)

(***************************************************************************)
(* Input validation (qm.py:19-20, and STORAGE_RE and validate_vmid of the  *)
(* root agent's _common module).                                           *)
(***************************************************************************)
UsernameTailMax == 31
WalletMax == 128
NftMax == 10

Alnum == Lower \cup Upper \cup Digit

\* USERNAME_RE.match(s): ^[a-z_][a-z0-9_-]{0,31}$
USERNAME_RE(s) ==
    \E b \in DollarBodies(s) :
        /\ Len(b) >= 1
        /\ b[1] \in Lower \cup {"_"}
        /\ Len(b) - 1 <= UsernameTailMax
        /\ AllIn(SubSeq(b, 2, Len(b)), Lower \cup Digit \cup {"_", "-"})

WalletPrefix == <<"w","a","l","l","e","t","=">>
NftPrefix == <<",","n","f","t","=">>

\* GECOS_RE.match(s): ^wallet=[a-zA-Z0-9]{1,128}(,nft=[0-9]{1,10})?$
GECOS_RE(s) ==
    \E b \in DollarBodies(s) :
        /\ StartsWith(b, WalletPrefix)
        /\ \E k \in 1..(Len(b) - Len(WalletPrefix)) :
            LET w == SubSeq(b, Len(WalletPrefix) + 1, Len(WalletPrefix) + k)
                rest == SubSeq(b, Len(WalletPrefix) + k + 1, Len(b))
            IN  /\ k <= WalletMax
                /\ AllIn(w, Alnum)
                /\ \/ rest = <<>>
                   \/ /\ StartsWith(rest, NftPrefix)
                      /\ LET n == SubSeq(rest, Len(NftPrefix) + 1, Len(rest))
                         IN  /\ Len(n) >= 1
                             /\ Len(n) <= NftMax
                             /\ AllIn(n, Digit)

\* STORAGE_RE.match(s): ^[a-zA-Z0-9_-]+$
STORAGE_RE(s) ==
    \E b \in DollarBodies(s) :
        /\ Len(b) >= 1
        /\ AllIn(b, Alnum \cup {"_", "-"})

\* The configured inclusive range of VM identifiers.
VMID_MIN == 100
VMID_MAX == 999

\* The integer a raw vmid denotes: an int, or a string of decimal digits.
VmidParses(x) ==
    \/ x.t = "int"
    \/ x.t = "str" /\ Len(x.v) >= 1 /\ AllIn(x.v, Digit)
VmidValue(x) == IF x.t = "int" THEN x.v ELSE StrToNat(x.v)

\* validate_vmid(x) returns VmidValue(x) when this holds, and raises otherwise
VmidOk(x) ==
    /\ VmidParses(x)
    /\ VmidValue(x) >= VMID_MIN
    /\ VmidValue(x) <= VMID_MAX

(***************************************************************************)
(* Allowlists (qm.py:23-32).                                               *)
(***************************************************************************)
k_scsi0 == <<"s","c","s","i","0">>
k_boot == <<"b","o","o","t">>
k_ide2 == <<"i","d","e","2">>
k_agent == <<"a","g","e","n","t">>
k_serial0 == <<"s","e","r","i","a","l","0">>
k_vga == <<"v","g","a">>
k_net0 == <<"n","e","t","0">>
k_memory == <<"m","e","m","o","r","y">>
k_cores == <<"c","o","r","e","s">>
k_name == <<"n","a","m","e">>
k_ostype == <<"o","s","t","y","p","e">>
k_scsihw == <<"s","c","s","i","h","w">>
k_sockets == <<"s","o","c","k","e","t","s">>
k_cpu == <<"c","p","u">>
k_numa == <<"n","u","m","a">>
k_machine == <<"m","a","c","h","i","n","e">>
k_bios == <<"b","i","o","s">>

Flag(k) == <<"-","-">> \o k

QM_CREATE_ALLOWED_ARGS ==
    {Flag(k) : k \in {k_scsi0, k_boot, k_ide2, k_agent, k_serial0, k_vga,
                       k_net0, k_memory, k_cores, k_name, k_ostype, k_scsihw,
                       k_sockets, k_cpu, k_numa, k_machine, k_bios}}

QM_SET_ALLOWED_KEYS ==
    {k_scsi0, k_boot, k_ide2, k_agent, k_serial0, k_vga,
     k_net0, k_memory, k_cores, k_name, k_ostype, k_scsihw}

(***************************************************************************)
(* The file system seen by os.path.isfile.  A file is named by the         *)
(* sequence of its path components; fs is the set of regular files that    *)
(* exist.  Symbolic links are not modelled.                                *)
(***************************************************************************)
n_tmp == <<"t","m","p">>
n_var == <<"v","a","r">>
n_lib == <<"l","i","b">>
n_blockhost == <<"b","l","o","c","k","h","o","s","t">>
n_etc == <<"e","t","c">>
n_d == <<"d">>
n_p == <<"p">>
n_x == <<"x">>

Directories ==
    {<<>>, <<n_tmp>>, <<n_var>>, <<n_var, n_lib>>,
     <<n_var, n_lib, n_blockhost>>, <<n_etc>>}

F_tmp_d == <<n_tmp, n_d>>
F_blockhost_d == <<n_var, n_lib, n_blockhost, n_d>>
F_etc_p == <<n_etc, n_p>>

\* the components of a path string, split at "/"
RECURSIVE SplitFrom(_, _, _)
SplitFrom(s, i, cur) ==
    IF i > Len(s) THEN <<cur>>
    ELSE IF s[i] = "/" THEN <<cur>> \o SplitFrom(s, i + 1, <<>>)
    ELSE SplitFrom(s, i + 1, Append(cur, s[i]))
Components(s) == SplitFrom(s, 1, <<>>)

NoFile == <<<<"?">>>>

\* Path resolution from the root directory: "" and "." stay, ".." goes to the
\* parent, a name enters a directory or ends at a regular file; anything that
\* follows a regular file, or a name that does not exist, fails.  at is the
\* directory reached so far, or the regular file reached (isf).
RECURSIVE Walk(_, _, _, _, _)
Walk(files, comps, i, at, isf) ==
    IF i > Len(comps) THEN (IF isf THEN at ELSE NoFile)
    ELSE IF isf THEN NoFile
    ELSE IF comps[i] = <<>> \/ comps[i] = <<".">> THEN
        Walk(files, comps, i + 1, at, FALSE)
    ELSE IF comps[i] = <<".", ".">> THEN
        Walk(files, comps, i + 1,
             IF at = <<>> THEN at ELSE SubSeq(at, 1, Len(at) - 1), FALSE)
    ELSE IF Append(at, comps[i]) \in Directories THEN
        Walk(files, comps, i + 1, Append(at, comps[i]), FALSE)
    ELSE IF Append(at, comps[i]) \in files THEN
        Walk(files, comps, i + 1, Append(at, comps[i]), TRUE)
    ELSE NoFile

\* the regular file a path string resolves to, or NoFile
Resolve(files, path) == Walk(files, Components(path), 1, <<>>, FALSE)

\* os.path.isfile(path)
IsFile(files, path) == Resolve(files, path) # NoFile

PrefixBlockhost ==
    <<"/","v","a","r","/","l","i","b","/","b","l","o","c","k","h","o","s","t","/">>
PrefixTmp == <<"/","t","m","p","/">>

\* the approved roots, as directories
ApprovedRoots == {<<n_var, n_lib, n_blockhost>>, <<n_tmp>>}

\* file f lies beneath one of the approved roots
Beneath(f) ==
    \E r \in ApprovedRoots : Len(f) > Len(r) /\ SubSeq(f, 1, Len(r)) = r

(***************************************************************************)
(* Outcomes of a handler up to its call of run(): it returns a response,   *)
(* raises, or hands an argv to the executor.  checks lists the parameters  *)
(* examined so far, in order; probes the paths given to os.path.isfile;    *)
(* prov names, for each argv entry, the check that entry has passed.       *)
(***************************************************************************)
Ok(out) == [ok |-> TRUE, output |-> out]
Fail(msg) == [ok |-> FALSE, error |-> msg]

Chk(f, i) == [f |-> f, i |-> i]

Returns(resp, chk, prb) ==
    [kind |-> "return", resp |-> resp, checks |-> chk, probes |-> prb]
Raises(type, field, chk, prb) ==
    [kind |-> "raise", exc |-> [type |-> type, field |-> field],
     checks |-> chk, probes |-> prb]
Runs(argv, prov, timeout, chk, prb) ==
    [kind |-> "run", argv |-> argv, prov |-> prov, timeout |-> timeout,
     checks |-> chk, probes |-> prb]

w_qm == <<"q","m">>
w_start == <<"s","t","a","r","t">>
w_stop == <<"s","t","o","p">>
w_shutdown == <<"s","h","u","t","d","o","w","n">>
w_destroy == <<"d","e","s","t","r","o","y">>
w_template == <<"t","e","m","p","l","a","t","e">>
w_create == <<"c","r","e","a","t","e">>
w_importdisk == <<"i","m","p","o","r","t","d","i","s","k">>
w_set == <<"s","e","t">>
w_guest == <<"g","u","e","s","t">>
w_exec == <<"e","x","e","c">>
w_usermod == <<"u","s","e","r","m","o","d">>
w_purge == <<"-","-","p","u","r","g","e">>
w_dashdash == <<"-","-">>
w_c == <<"-","c">>

SimpleTimeout == 120
ShutdownTimeout == 300
CreateTimeout == 120
ImportTimeout == 600
SetTimeout == 120
GecosTimeout == 30

\* _handle_qm_simple without validate_vmid: the raw vmid goes into the argv
handle_qm_simple_NoValidate(params, subcommand, extra_args, timeout) ==
    IF params["vmid"] = Absent THEN Raises("KeyError", "vmid", <<>>, <<>>)
    ELSE Runs(<<w_qm, subcommand, PyStr(params["vmid"])>> \o extra_args,
              <<"literal", "literal", "unvalidated">>
                  \o [i \in 1..Len(extra_args) |-> "literal"],
              timeout, <<>>, <<>>)

\* _handle_qm_simple leaving extra_args out of the argv
handle_qm_simple_NoExtra(params, subcommand, extra_args, timeout) ==
    IF params["vmid"] = Absent THEN Raises("KeyError", "vmid", <<>>, <<>>)
    ELSE IF ~VmidOk(params["vmid"]) THEN
        Raises("ValueError", "vmid", <<Chk("vmid", 0)>>, <<>>)
    ELSE Runs(<<w_qm, subcommand, IntToStr(VmidValue(params["vmid"]))>>,
              <<"literal", "literal", "validate_vmid">>,
              timeout, <<Chk("vmid", 0)>>, <<>>)

\* _handle_qm_simple(params, subcommand, extra_args, timeout)
handle_qm_simple(params, subcommand, extra_args, timeout) ==
    IF params["vmid"] = Absent THEN Raises("KeyError", "vmid", <<>>, <<>>)
    ELSE IF ~VmidOk(params["vmid"]) THEN
        Raises("ValueError", "vmid", <<Chk("vmid", 0)>>, <<>>)
    ELSE Runs(<<w_qm, subcommand, IntToStr(VmidValue(params["vmid"]))>>
                  \o extra_args,
              <<"literal", "literal", "validate_vmid">>
                  \o [i \in 1..Len(extra_args) |-> "literal"],
              timeout, <<Chk("vmid", 0)>>, <<>>)

\* the loop of handle_qm_create without the allowlist test
RECURSIVE CreateLoop_NoAllowlist(_, _, _, _, _)
CreateLoop_NoAllowlist(args, i, cmd, prov, chk) ==
    IF i > Len(args) THEN Runs(cmd, prov, CreateTimeout, chk, <<>>)
    ELSE IF ~IsList(args[i]) \/ Len(args[i].v) # 2 THEN
        Returns(Fail(<<"Each arg must be [flag, value]: ">> \o PyStr(args[i])),
                Append(chk, Chk("args", i)), <<>>)
    ELSE CreateLoop_NoAllowlist(args, i + 1,
             cmd \o <<PyStr(args[i].v[1]), PyStr(args[i].v[2])>>,
             prov \o <<"unvalidated", "unvalidated">>,
             Append(chk, Chk("args", i)))

\* the loop of handle_qm_create over args, from item i on
RECURSIVE CreateLoop(_, _, _, _, _)
CreateLoop(args, i, cmd, prov, chk) ==
    IF i > Len(args) THEN Runs(cmd, prov, CreateTimeout, chk, <<>>)
    ELSE
    LET item == args[i]
        chk1 == Append(chk, Chk("args", i))
    IN  IF ~IsList(item) \/ Len(item.v) # 2 THEN
            Returns(Fail(<<"Each arg must be [flag, value]: ">> \o PyStr(item)),
                    chk1, <<>>)
        ELSE
        LET flag == item.v[1]
            value == PyStr(item.v[2])
        IN  IF ~Hashable(flag) THEN Raises("TypeError", "args", chk1, <<>>)
            ELSE IF ~(IsStr(flag) /\ flag.v \in QM_CREATE_ALLOWED_ARGS) THEN
                Returns(Fail(<<"Disallowed qm create arg: ">> \o PyStr(flag)),
                        chk1, <<>>)
            ELSE CreateLoop(args, i + 1, cmd \o <<flag.v, value>>,
                            prov \o <<"allowlist", "unvalidated">>, chk1)

handle_qm_create(params) ==
    IF params["vmid"] = Absent THEN Raises("KeyError", "vmid", <<>>, <<>>)
    ELSE IF ~VmidOk(params["vmid"]) THEN
        Raises("ValueError", "vmid", <<Chk("vmid", 0)>>, <<>>)
    ELSE
    LET args == Get(params, "args", JList(<<>>))
    IN  IF ~IsList(args) THEN
            Returns(Fail(<<"args must be a list">>),
                    <<Chk("vmid", 0), Chk("args", 0)>>, <<>>)
        ELSE CreateLoop(args.v, 1,
                        <<w_qm, w_create, IntToStr(VmidValue(params["vmid"]))>>,
                        <<"literal", "literal", "validate_vmid">>,
                        <<Chk("vmid", 0), Chk("args", 0)>>)

\* handle_qm_importdisk without the os.path.isfile test
handle_qm_importdisk_NoIsfile(files, params) ==
    IF params["vmid"] = Absent THEN Raises("KeyError", "vmid", <<>>, <<>>)
    ELSE IF ~VmidOk(params["vmid"]) THEN
        Raises("ValueError", "vmid", <<Chk("vmid", 0)>>, <<>>)
    ELSE
    LET image_path == Get(params, "image_path", JStr(<<>>))
        storage == Get(params, "storage", JStr(<<>>))
        chk1 == <<Chk("vmid", 0), Chk("image_path", 0)>>
        chk2 == Append(chk1, Chk("storage", 0))
    IN  IF ~IsStr(image_path) \/ ~Truthy(image_path) THEN
            Returns(Fail(<<"image_path is required">>), chk1, <<>>)
        ELSE IF ~(StartsWith(image_path.v, PrefixBlockhost)
                    \/ StartsWith(image_path.v, PrefixTmp)) THEN
            Returns(Fail(<<"image_path must be under /var/lib/blockhost/ or /tmp/">>),
                    chk1, <<>>)
        ELSE IF ~IsStr(storage) \/ ~STORAGE_RE(storage.v) THEN
            Returns(Fail(<<"Invalid storage name: ">> \o PyStr(storage)),
                    chk2, <<>>)
        ELSE Runs(<<w_qm, w_importdisk, IntToStr(VmidValue(params["vmid"])),
                    image_path.v, storage.v>>,
                  <<"literal", "literal", "validate_vmid", "path", "STORAGE_RE">>,
                  ImportTimeout, chk2, <<>>)

\* handle_qm_importdisk probing the file system before the prefix test
handle_qm_importdisk_IsfileFirst(files, params) ==
    IF params["vmid"] = Absent THEN Raises("KeyError", "vmid", <<>>, <<>>)
    ELSE IF ~VmidOk(params["vmid"]) THEN
        Raises("ValueError", "vmid", <<Chk("vmid", 0)>>, <<>>)
    ELSE
    LET image_path == Get(params, "image_path", JStr(<<>>))
        storage == Get(params, "storage", JStr(<<>>))
        chk1 == <<Chk("vmid", 0), Chk("image_path", 0)>>
        chk2 == Append(chk1, Chk("storage", 0))
    IN  IF ~IsStr(image_path) \/ ~Truthy(image_path) THEN
            Returns(Fail(<<"image_path is required">>), chk1, <<>>)
        ELSE IF ~IsFile(files, image_path.v) THEN
            Returns(Fail(<<"Image not found: ">> \o image_path.v),
                    chk1, <<image_path.v>>)
        ELSE IF ~(StartsWith(image_path.v, PrefixBlockhost)
                    \/ StartsWith(image_path.v, PrefixTmp)) THEN
            Returns(Fail(<<"image_path must be under /var/lib/blockhost/ or /tmp/">>),
                    chk1, <<image_path.v>>)
        ELSE IF ~IsStr(storage) \/ ~STORAGE_RE(storage.v) THEN
            Returns(Fail(<<"Invalid storage name: ">> \o PyStr(storage)),
                    chk2, <<image_path.v>>)
        ELSE Runs(<<w_qm, w_importdisk, IntToStr(VmidValue(params["vmid"])),
                    image_path.v, storage.v>>,
                  <<"literal", "literal", "validate_vmid", "path", "STORAGE_RE">>,
                  ImportTimeout, chk2, <<image_path.v>>)

handle_qm_importdisk(files, params) ==
    IF params["vmid"] = Absent THEN Raises("KeyError", "vmid", <<>>, <<>>)
    ELSE IF ~VmidOk(params["vmid"]) THEN
        Raises("ValueError", "vmid", <<Chk("vmid", 0)>>, <<>>)
    ELSE
    LET image_path == Get(params, "image_path", JStr(<<>>))
        storage == Get(params, "storage", JStr(<<>>))
        chk1 == <<Chk("vmid", 0), Chk("image_path", 0)>>
        chk2 == Append(chk1, Chk("storage", 0))
    IN  IF ~IsStr(image_path) \/ ~Truthy(image_path) THEN
            Returns(Fail(<<"image_path is required">>), chk1, <<>>)
        ELSE IF ~(StartsWith(image_path.v, PrefixBlockhost)
                    \/ StartsWith(image_path.v, PrefixTmp)) THEN
            Returns(Fail(<<"image_path must be under /var/lib/blockhost/ or /tmp/">>),
                    chk1, <<>>)
        ELSE IF ~IsFile(files, image_path.v) THEN
            Returns(Fail(<<"Image not found: ">> \o image_path.v),
                    chk1, <<image_path.v>>)
        ELSE IF ~IsStr(storage) \/ ~STORAGE_RE(storage.v) THEN
            Returns(Fail(<<"Invalid storage name: ">> \o PyStr(storage)),
                    chk2, <<image_path.v>>)
        ELSE Runs(<<w_qm, w_importdisk, IntToStr(VmidValue(params["vmid"])),
                    image_path.v, storage.v>>,
                  <<"literal", "literal", "validate_vmid", "path", "STORAGE_RE">>,
                  ImportTimeout, chk2, <<image_path.v>>)

\* the loop of handle_qm_set appending each pair as one token --key=value
RECURSIVE SetLoop_Joined(_, _, _, _, _)
SetLoop_Joined(items, i, cmd, prov, chk) ==
    IF i > Len(items) THEN Runs(cmd, prov, SetTimeout, chk, <<>>)
    ELSE IF items[i][1].v \notin QM_SET_ALLOWED_KEYS THEN
        Returns(Fail(<<"Disallowed qm set key: ">> \o PyStr(items[i][1])),
                Append(chk, Chk("config", i)), <<>>)
    ELSE SetLoop_Joined(items, i + 1,
             Append(cmd, Flag(items[i][1].v) \o <<"=">> \o PyStr(items[i][2])),
             Append(prov, "allowlist"), Append(chk, Chk("config", i)))

\* the loop of handle_qm_set skipping a key that is not in the allowlist
RECURSIVE SetLoop_DropsDisallowed(_, _, _, _, _)
SetLoop_DropsDisallowed(items, i, cmd, prov, chk) ==
    IF i > Len(items) THEN Runs(cmd, prov, SetTimeout, chk, <<>>)
    ELSE IF items[i][1].v \notin QM_SET_ALLOWED_KEYS THEN
        SetLoop_DropsDisallowed(items, i + 1, cmd, prov,
                                Append(chk, Chk("config", i)))
    ELSE SetLoop_DropsDisallowed(items, i + 1,
             cmd \o <<Flag(items[i][1].v), PyStr(items[i][2])>>,
             prov \o <<"allowlist", "unvalidated">>,
             Append(chk, Chk("config", i)))

\* the loop of handle_qm_set over config.items(), from item i on
RECURSIVE SetLoop(_, _, _, _, _)
SetLoop(items, i, cmd, prov, chk) ==
    IF i > Len(items) THEN Runs(cmd, prov, SetTimeout, chk, <<>>)
    ELSE
    LET key == items[i][1]
        value == items[i][2]
        chk1 == Append(chk, Chk("config", i))
    IN  IF key.v \notin QM_SET_ALLOWED_KEYS THEN
            Returns(Fail(<<"Disallowed qm set key: ">> \o PyStr(key)), chk1, <<>>)
        ELSE SetLoop(items, i + 1, cmd \o <<Flag(key.v), PyStr(value)>>,
                     prov \o <<"allowlist", "unvalidated">>, chk1)

\* handle_qm_set without the test for an empty config
handle_qm_set_EmptyOk(params) ==
    IF params["vmid"] = Absent THEN Raises("KeyError", "vmid", <<>>, <<>>)
    ELSE IF ~VmidOk(params["vmid"]) THEN
        Raises("ValueError", "vmid", <<Chk("vmid", 0)>>, <<>>)
    ELSE
    LET config == Get(params, "config", JDict(<<>>))
    IN  IF ~IsDict(config) THEN
            Returns(Fail(<<"config must be a non-empty dict">>),
                    <<Chk("vmid", 0), Chk("config", 0)>>, <<>>)
        ELSE SetLoop(config.v, 1,
                     <<w_qm, w_set, IntToStr(VmidValue(params["vmid"]))>>,
                     <<"literal", "literal", "validate_vmid">>,
                     <<Chk("vmid", 0), Chk("config", 0)>>)

handle_qm_set(params) ==
    IF params["vmid"] = Absent THEN Raises("KeyError", "vmid", <<>>, <<>>)
    ELSE IF ~VmidOk(params["vmid"]) THEN
        Raises("ValueError", "vmid", <<Chk("vmid", 0)>>, <<>>)
    ELSE
    LET config == Get(params, "config", JDict(<<>>))
    IN  IF ~IsDict(config) \/ ~Truthy(config) THEN
            Returns(Fail(<<"config must be a non-empty dict">>),
                    <<Chk("vmid", 0), Chk("config", 0)>>, <<>>)
        ELSE SetLoop(config.v, 1,
                     <<w_qm, w_set, IntToStr(VmidValue(params["vmid"]))>>,
                     <<"literal", "literal", "validate_vmid">>,
                     <<Chk("vmid", 0), Chk("config", 0)>>)

\* handle_qm_update_gecos testing gecos before username
handle_qm_update_gecos_GecosFirst(params) ==
    IF params["vmid"] = Absent THEN Raises("KeyError", "vmid", <<>>, <<>>)
    ELSE IF ~VmidOk(params["vmid"]) THEN
        Raises("ValueError", "vmid", <<Chk("vmid", 0)>>, <<>>)
    ELSE
    LET username == Get(params, "username", JStr(<<>>))
        gecos == Get(params, "gecos", JStr(<<>>))
        chk1 == <<Chk("vmid", 0), Chk("gecos", 0)>>
        chk2 == Append(chk1, Chk("username", 0))
    IN  IF ~IsStr(gecos) \/ ~GECOS_RE(gecos.v) THEN
            Returns(Fail(<<"Invalid gecos: ">> \o PyStr(gecos)), chk1, <<>>)
        ELSE IF ~IsStr(username) \/ ~USERNAME_RE(username.v) THEN
            Returns(Fail(<<"Invalid username: ">> \o PyStr(username)), chk2, <<>>)
        ELSE Runs(<<w_qm, w_guest, w_exec, IntToStr(VmidValue(params["vmid"])),
                    w_dashdash, w_usermod, w_c, gecos.v, username.v>>,
                  <<"literal", "literal", "literal", "validate_vmid",
                    "literal", "literal", "literal", "GECOS_RE", "USERNAME_RE">>,
                  GecosTimeout, chk2, <<>>)

handle_qm_update_gecos(params) ==
    IF params["vmid"] = Absent THEN Raises("KeyError", "vmid", <<>>, <<>>)
    ELSE IF ~VmidOk(params["vmid"]) THEN
        Raises("ValueError", "vmid", <<Chk("vmid", 0)>>, <<>>)
    ELSE
    LET username == Get(params, "username", JStr(<<>>))
        gecos == Get(params, "gecos", JStr(<<>>))
        chk1 == <<Chk("vmid", 0), Chk("username", 0)>>
        chk2 == Append(chk1, Chk("gecos", 0))
    IN  IF ~IsStr(username) \/ ~USERNAME_RE(username.v) THEN
            Returns(Fail(<<"Invalid username: ">> \o PyStr(username)), chk1, <<>>)
        ELSE IF ~IsStr(gecos) \/ ~GECOS_RE(gecos.v) THEN
            Returns(Fail(<<"Invalid gecos: ">> \o PyStr(gecos)), chk2, <<>>)
        ELSE Runs(<<w_qm, w_guest, w_exec, IntToStr(VmidValue(params["vmid"])),
                    w_dashdash, w_usermod, w_c, gecos.v, username.v>>,
                  <<"literal", "literal", "literal", "validate_vmid",
                    "literal", "literal", "literal", "GECOS_RE", "USERNAME_RE">>,
                  GecosTimeout, chk2, <<>>)

\* the tail with "out or err" for "err or out"
MapResult_OutFirst(rc, out, err) ==
    IF rc # 0 THEN Fail(IF Len(out) > 0 THEN out ELSE err)
    ELSE Ok(out)

\* the tail reporting a failure under the key 'output'
MapResult_OutputOnFailure(rc, out, err) ==
    IF rc # 0 THEN [ok |-> FALSE, output |-> IF Len(err) > 0 THEN err ELSE out]
    ELSE Ok(out)

\* the tail reporting stdout alone as the error
MapResult_ErrorIsOut(rc, out, err) ==
    IF rc # 0 THEN Fail(out) ELSE Ok(out)

\* the tail every handler shares: the response for run()'s (rc, out, err)
MapResult(rc, out, err) ==
    IF rc # 0 THEN Fail(IF Len(err) > 0 THEN err ELSE out)
    ELSE Ok(out)

ActionNames ==
    {"qm-start", "qm-stop", "qm-shutdown", "qm-destroy", "qm-create",
     "qm-importdisk", "qm-set", "qm-template", "qm-update-gecos"}
SimpleActions == {"qm-start", "qm-stop", "qm-shutdown", "qm-destroy", "qm-template"}

\* ACTIONS[action](params); ACTIONS is a reserved word of TLA+
Actions(files, action, params) ==
    CASE action = "qm-start" ->
            handle_qm_simple(params, w_start, <<>>, SimpleTimeout)
      [] action = "qm-stop" ->
            handle_qm_simple(params, w_stop, <<>>, SimpleTimeout)
      [] action = "qm-shutdown" ->
            handle_qm_simple(params, w_shutdown, <<>>, ShutdownTimeout)
      [] action = "qm-destroy" ->
            handle_qm_simple(params, w_destroy, <<w_purge>>, SimpleTimeout)
      [] action = "qm-create" -> handle_qm_create(params)
      [] action = "qm-importdisk" -> handle_qm_importdisk(files, params)
      [] action = "qm-set" -> handle_qm_set(params)
      [] action = "qm-template" ->
            handle_qm_simple(params, w_template, <<>>, SimpleTimeout)
      [] action = "qm-update-gecos" -> handle_qm_update_gecos(params)

(***************************************************************************)
(* The executor, run(cmd, timeout) of _common: the child's exit status and *)
(* its captured streams, or the fixed result of a timeout.                 *)
(***************************************************************************)
TimedOutMsg == <<"timed out">>

run(res) ==
    IF res.timedOut THEN <<0 - 1, <<>>, TimedOutMsg>>
    ELSE <<res.exitCode, res.stdout, res.stderr>>

(***************************************************************************)
(* The dispatcher of the root agent daemon: an action name outside the     *)
(* registry and an exception raised by a handler both become an ok:false   *)
(* response.                                                               *)
(***************************************************************************)
UnknownActionResponse(action) == Fail(<<"UnknownAction: ", action>>)

ExcResponse(exc) ==
    IF exc.type = "KeyError" THEN Fail(<<"MissingParameter: ", exc.field>>)
    ELSE Fail(<<"InvalidParameter: ", exc.field>>)

(***************************************************************************)
(* Requests and execution results the model draws from.                    *)
(***************************************************************************)
SeqsUpTo(S, n) == UNION {[1..k -> S] : k \in 0..n}

ParamKeys ==
    {"vmid", "args", "config", "image_path", "storage", "username", "gecos"}
NoParams == [k \in ParamKeys |-> Absent]

s_150 == <<"1","5","0">>
s_abc == <<"a","b","c">>
s_2048 == <<"2","0","4","8">>
s_2 == <<"2">>
s_x == <<"x">>
s_1 == <<"1">>
s_ab == <<"a","b">>
k_unsafe == <<"u","n","s","a","f","e">>
s_local == <<"l","o","c","a","l">>
s_a_slash_b == <<"a","/","b">>
p_tmp_d == <<"/","t","m","p","/","d">>
p_blockhost_d == <<"/","v","a","r","/","l","i","b","/","b","l","o","c","k","h","o","s","t","/","d">>
p_etc_p == <<"/","e","t","c","/","p">>
p_traversal == <<"/","t","m","p","/",".",".","/","e","t","c","/","p">>
p_tmp_x == <<"/","t","m","p","/","x">>
p_etc_x == <<"/","e","t","c","/","x">>
p_tmp_dir == <<"/","t","m","p","/">>
p_tmp_d_slash == <<"/","t","m","p","/","d","/">>
p_dot == <<"/","t","m","p","/",".","/","d">>
s_root == <<"r","o","o","t">>
s_Root == <<"R","o","o","t">>
s_root_nl == <<"r","o","o","t","\n">>
g_wallet_nft == <<"w","a","l","l","e","t","=","a","b","c","1","2","3",",","n","f","t","=","4","2">>
g_wallet == <<"w","a","l","l","e","t","=","a">>
g_inject == <<"w","a","l","l","e","t","=","a","b","c","1","2","3",";","r","m"," ","-","r","f">>
g_empty == <<"w","a","l","l","e","t","=">>
g_wallet_nl == <<"w","a","l","l","e","t","=","a","\n">>
t_out == <<"o","u","t">>
t_err == <<"e","r","r">>

VmidInputs ==
    {Absent, JInt(99), JInt(100), JInt(999), JInt(1000), JStr(s_150), JStr(s_abc)}

\* items of a qm-create args list: allowed pairs, a disallowed pair, and items
\* that are no [flag, value] pair
ArgItems ==
    {JList(<<JStr(Flag(k_memory)), JStr(s_2048)>>),
     JList(<<JStr(Flag(k_cores)), JInt(2)>>),
     JList(<<JStr(Flag(k_unsafe)), JStr(s_x)>>),
     JList(<<JStr(Flag(k_memory)), JStr(s_1), JStr(s_2)>>),
     JList(<<JList(<<JStr(Flag(k_memory))>>), JStr(s_x)>>),
     JStr(s_ab)}
ArgsInputs ==
    {Absent, JStr(s_x)} \cup {JList(xs) : xs \in SeqsUpTo(ArgItems, MaxArgs)}

\* a config mapping is the sequence of its items in the mapping's order
ConfigPairs ==
    {<<JStr(k_memory), JStr(s_2048)>>,
     <<JStr(k_cores), JStr(s_2)>>,
     <<JStr(k_cores), JInt(2)>>,
     <<JStr(k_unsafe), JStr(s_x)>>}
DistinctKeys(kvs) ==
    \A i, j \in 1..Len(kvs) : i # j => kvs[i][1] # kvs[j][1]
ConfigInputs ==
    {Absent, JStr(s_x)}
        \cup {JDict(kvs) : kvs \in {c \in SeqsUpTo(ConfigPairs, MaxArgs) :
                                        DistinctKeys(c)}}

PathInputs ==
    {Absent, JInt(2), JStr(<<>>), JStr(p_tmp_d), JStr(p_blockhost_d),
     JStr(p_etc_p), JStr(p_traversal), JStr(p_tmp_x), JStr(p_tmp_dir),
     JStr(p_tmp_d_slash), JStr(p_dot), JStr(p_etc_x)}
StorageInputs == {Absent, JInt(2), JStr(s_local), JStr(s_a_slash_b)}

UsernameInputs == {Absent, JStr(s_root), JStr(s_Root), JStr(s_root_nl)}
GecosInputs ==
    {Absent, JStr(g_wallet_nft), JStr(g_wallet), JStr(g_inject), JStr(g_empty),
     JStr(g_wallet_nl)}

SimpleParams == {[NoParams EXCEPT !["vmid"] = v] : v \in VmidInputs}
CreateParams ==
    {[NoParams EXCEPT !["vmid"] = v, !["args"] = a] :
        v \in VmidInputs, a \in ArgsInputs}
ImportdiskParams ==
    {[NoParams EXCEPT !["vmid"] = v, !["image_path"] = i, !["storage"] = st] :
        v \in VmidInputs, i \in PathInputs, st \in StorageInputs}
SetParams ==
    {[NoParams EXCEPT !["vmid"] = v, !["config"] = c] :
        v \in VmidInputs, c \in ConfigInputs}
GecosParams ==
    {[NoParams EXCEPT !["vmid"] = v, !["username"] = u, !["gecos"] = g] :
        v \in VmidInputs, u \in UsernameInputs, g \in GecosInputs}

ToolOut == {<<>>, t_out}
ToolErr == {<<>>, t_err}
ExecResults ==
    [exitCode : {0, 1}, stdout : ToolOut, stderr : ToolErr, timedOut : {FALSE}]
        \cup [exitCode : {0 - 9}, stdout : ToolOut, stderr : ToolErr,
              timedOut : {TRUE}]

(***************************************************************************)
(* State.  fs: the regular files that exist.  Per dispatcher thread p:     *)
(* pc[p] is "idle", "running" (blocked in run()) or "done"; req[p] the     *)
(* request; call[p] the argv and timeout handed to the executor; runs[p]   *)
(* the number of executor invocations of this dispatch; resps[p] the       *)
(* responses produced; checks[p] and probes[p] the handler's checks and    *)
(* isfile probes in order; result[p] the execution result consumed.        *)
(***************************************************************************)
NoReq == [action |-> "", params |-> NoParams]
NoCall == [argv |-> <<>>, prov |-> <<>>, timeout |-> 0, resolved |-> NoFile]
NoResult == [exitCode |-> 0, stdout |-> <<>>, stderr |-> <<>>, timedOut |-> FALSE]

BaseFiles == {F_blockhost_d, F_etc_p}
VolatileFiles == {F_tmp_d}

Init ==
    /\ fs = BaseFiles
    /\ pc = [p \in Procs |-> "idle"]
    /\ req = [p \in Procs |-> NoReq]
    /\ call = [p \in Procs |-> NoCall]
    /\ runs = [p \in Procs |-> 0]
    /\ resps = [p \in Procs |-> <<>>]
    /\ checks = [p \in Procs |-> <<>>]
    /\ probes = [p \in Procs |-> <<>>]
    /\ result = [p \in Procs |-> NoResult]

\* a handler whose cmd list is shared between calls: the argv goes on from the
\* argv another dispatch under way has built
Handle_SharedCmd(p, action, params) ==
    LET o == Actions(fs, action, params)
        others == {q \in Procs \ {p} : runs[q] > 0}
        shared == IF others = {} THEN <<>>
                  ELSE call[CHOOSE q \in others : TRUE].argv
    IN  /\ pc[p] = "idle"
        /\ req' = [req EXCEPT ![p] = [action |-> action, params |-> params]]
        /\ checks' = [checks EXCEPT ![p] = o.checks]
        /\ probes' = [probes EXCEPT ![p] = o.probes]
        /\ IF o.kind = "run" THEN
                /\ call' = [call EXCEPT ![p] =
                       [argv |-> shared \o o.argv, prov |-> o.prov,
                        timeout |-> o.timeout,
                        resolved |-> IF action = "qm-importdisk"
                                     THEN Resolve(fs, params["image_path"].v)
                                     ELSE NoFile]]
                /\ runs' = [runs EXCEPT ![p] = runs[p] + 1]
                /\ pc' = [pc EXCEPT ![p] = "running"]
                /\ UNCHANGED resps
           ELSE /\ resps' = [resps EXCEPT ![p] = Append(resps[p],
                       IF o.kind = "raise" THEN ExcResponse(o.exc) ELSE o.resp)]
                /\ pc' = [pc EXCEPT ![p] = "done"]
                /\ UNCHANGED <<call, runs>>
        /\ UNCHANGED <<fs, result>>

\* the handler of request (action, params) runs up to its return, its raise or
\* its call of run()
Handle(p, action, params) ==
    LET o == Actions(fs, action, params)
    IN  /\ pc[p] = "idle"
        /\ req' = [req EXCEPT ![p] = [action |-> action, params |-> params]]
        /\ checks' = [checks EXCEPT ![p] = o.checks]
        /\ probes' = [probes EXCEPT ![p] = o.probes]
        /\ IF o.kind = "run" THEN
                /\ call' = [call EXCEPT ![p] =
                       [argv |-> o.argv, prov |-> o.prov, timeout |-> o.timeout,
                        resolved |-> IF action = "qm-importdisk"
                                     THEN Resolve(fs, params["image_path"].v)
                                     ELSE NoFile]]
                /\ runs' = [runs EXCEPT ![p] = runs[p] + 1]
                /\ pc' = [pc EXCEPT ![p] = "running"]
                /\ UNCHANGED resps
           ELSE /\ resps' = [resps EXCEPT ![p] = Append(resps[p],
                       IF o.kind = "raise" THEN ExcResponse(o.exc) ELSE o.resp)]
                /\ pc' = [pc EXCEPT ![p] = "done"]
                /\ UNCHANGED <<call, runs>>
        /\ UNCHANGED <<fs, result>>

DispatchSimple(p) ==
    \E action \in SimpleActions, params \in SimpleParams :
        Handle(p, action, params)
DispatchCreate(p) ==
    \E params \in CreateParams : Handle(p, "qm-create", params)
DispatchImportdisk(p) ==
    \E params \in ImportdiskParams : Handle(p, "qm-importdisk", params)
DispatchSet(p) ==
    \E params \in SetParams : Handle(p, "qm-set", params)
DispatchUpdateGecos(p) ==
    \E params \in GecosParams : Handle(p, "qm-update-gecos", params)

\* an action name that is not registered
DispatchUnknown(p) ==
    /\ pc[p] = "idle"
    /\ req' = [req EXCEPT ![p] = [action |-> "qm-reboot", params |-> NoParams]]
    /\ resps' = [resps EXCEPT ![p] =
           Append(resps[p], UnknownActionResponse("qm-reboot"))]
    /\ pc' = [pc EXCEPT ![p] = "done"]
    /\ UNCHANGED <<fs, call, runs, checks, probes, result>>

\* run() returns and the handler calls it again after a failure
RunReturns_Retry(p) ==
    /\ pc[p] = "running"
    /\ \E res \in ExecResults :
        LET t == run(res)
        IN  /\ result' = [result EXCEPT ![p] = res]
            /\ IF t[1] # 0 THEN
                    /\ runs' = [runs EXCEPT ![p] = runs[p] + 1]
                    /\ UNCHANGED <<resps, pc>>
               ELSE /\ resps' = [resps EXCEPT ![p] =
                           Append(resps[p], MapResult(t[1], t[2], t[3]))]
                    /\ pc' = [pc EXCEPT ![p] = "done"]
                    /\ UNCHANGED runs
    /\ UNCHANGED <<fs, req, call, checks, probes>>

\* run() returns to the handler, which maps (rc, out, err) to the response
RunReturns(p) ==
    /\ pc[p] = "running"
    /\ \E res \in ExecResults :
        LET t == run(res)
        IN  /\ result' = [result EXCEPT ![p] = res]
            /\ resps' = [resps EXCEPT ![p] =
                   Append(resps[p], MapResult(t[1], t[2], t[3]))]
    /\ pc' = [pc EXCEPT ![p] = "done"]
    /\ UNCHANGED <<fs, req, call, runs, checks, probes>>

\* the response has been delivered; the thread takes the next request
Reset(p) ==
    /\ pc[p] = "done"
    /\ pc' = [pc EXCEPT ![p] = "idle"]
    /\ req' = [req EXCEPT ![p] = NoReq]
    /\ call' = [call EXCEPT ![p] = NoCall]
    /\ runs' = [runs EXCEPT ![p] = 0]
    /\ resps' = [resps EXCEPT ![p] = <<>>]
    /\ checks' = [checks EXCEPT ![p] = <<>>]
    /\ probes' = [probes EXCEPT ![p] = <<>>]
    /\ result' = [result EXCEPT ![p] = NoResult]
    /\ UNCHANGED fs

\* the environment creates or removes a disk image
FsToggle ==
    /\ \E f \in VolatileFiles :
        fs' = IF f \in fs THEN fs \ {f} ELSE fs \cup {f}
    /\ UNCHANGED <<pc, req, call, runs, resps, checks, probes, result>>

\* one caller: a request is dispatched only when no other dispatch is under way
OthersIdle(p) == \A q \in Procs \ {p} : pc[q] = "idle"

Next ==
    \/ \E p \in Procs : OthersIdle(p) /\ DispatchSimple(p)
    \/ \E p \in Procs : OthersIdle(p) /\ DispatchCreate(p)
    \/ \E p \in Procs : OthersIdle(p) /\ DispatchImportdisk(p)
    \/ \E p \in Procs : OthersIdle(p) /\ DispatchSet(p)
    \/ \E p \in Procs : OthersIdle(p) /\ DispatchUpdateGecos(p)
    \/ \E p \in Procs : OthersIdle(p) /\ DispatchUnknown(p)
    \/ \E p \in Procs : RunReturns(p)
    \/ \E p \in Procs : Reset(p)
    \/ FsToggle

Spec == Init /\ [][Next]_vars

\* run() returns within its timeout, so a handler blocked in it goes on
FairSpec == Spec /\ \A p \in Procs : WF_vars(RunReturns(p))

(***************************************************************************)
(* Concurrent callers: any thread may dispatch while others are under way. *)
(***************************************************************************)
ConcRequests ==
    {[action |-> "qm-start",
      params |-> [NoParams EXCEPT !["vmid"] = JInt(100)]],
     [action |-> "qm-destroy",
      params |-> [NoParams EXCEPT !["vmid"] = JInt(1000)]],
     [action |-> "qm-set",
      params |-> [NoParams EXCEPT !["vmid"] = JInt(100),
                     !["config"] = JDict(<<<<JStr(k_memory), JStr(s_2048)>>,
                                           <<JStr(k_cores), JStr(s_2)>>>>)]],
     [action |-> "qm-create",
      params |-> [NoParams EXCEPT !["vmid"] = JStr(s_150),
                     !["args"] = JList(<<
                         JList(<<JStr(Flag(k_memory)), JStr(s_2048)>>),
                         JList(<<JStr(Flag(k_unsafe)), JStr(s_x)>>)>>)]],
     [action |-> "qm-importdisk",
      params |-> [NoParams EXCEPT !["vmid"] = JInt(999),
                     !["image_path"] = JStr(p_tmp_d),
                     !["storage"] = JStr(s_local)]]}

ConcDispatch(p) ==
    \E r \in ConcRequests : Handle(p, r.action, r.params)

NextConc ==
    \/ \E p \in Procs : ConcDispatch(p)
    \/ \E p \in Procs : RunReturns(p)
    \/ \E p \in Procs : Reset(p)
    \/ FsToggle

SpecConc == Init /\ [][NextConc]_vars

(***************************************************************************)
(* Properties.                                                             *)
(***************************************************************************)
Started(p) == pc[p] # "idle"
Done(p) == pc[p] = "done"
Handed(p) == runs[p] > 0
Action(p) == req[p].action
Param(p, k) == req[p].params[k]
Rejected(p) ==
    /\ Done(p)
    /\ runs[p] = 0
    /\ call[p] = NoCall
    /\ Len(resps[p]) = 1
    /\ ~resps[p][1].ok

\* item is a [flag, value] pair whose flag is not in the allowlist
DisallowedPair(item) ==
    /\ IsList(item)
    /\ Len(item.v) = 2
    /\ ~(IsStr(item.v[1]) /\ item.v[1].v \in QM_CREATE_ALLOWED_ARGS)
AllowedPair(item) ==
    /\ IsList(item)
    /\ Len(item.v) = 2
    /\ IsStr(item.v[1])
    /\ item.v[1].v \in QM_CREATE_ALLOWED_ARGS
HasDisallowedPair(args) ==
    IsList(args) /\ \E i \in 1..Len(args.v) : DisallowedPair(args.v[i])
\* item i is a disallowed pair with a hashable flag, and every item before it
\* is an allowed pair
FirstFailure(args, i) ==
    /\ DisallowedPair(args.v[i])
    /\ Hashable(args.v[i].v[1])
    /\ \A j \in 1..(i - 1) : AllowedPair(args.v[j])

\* C1 as stated: every qm-create request with a disallowed pair anywhere in
\* args is answered ok:false with an error naming a disallowed flag of the
\* request, and the executor is not invoked.
C1_AsStated ==
    \A p \in Procs :
        (Started(p) /\ Action(p) = "qm-create"
            /\ HasDisallowedPair(Param(p, "args")))
        => /\ Rejected(p)
           /\ \E i \in 1..Len(Param(p, "args").v) :
                /\ DisallowedPair(Param(p, "args").v[i])
                /\ Contains(resps[p][1].error, PyStr(Param(p, "args").v[i].v[1]))

\* C1 amended: every qm-create request with a disallowed pair anywhere in args
\* is answered ok:false and the executor is not invoked; the error names the
\* flag of the first disallowed pair when the vmid is valid, that flag is
\* hashable and every item before the pair is an allowed pair.
C1_Amended ==
    \A p \in Procs :
        (Started(p) /\ Action(p) = "qm-create"
            /\ HasDisallowedPair(Param(p, "args")))
        => /\ Rejected(p)
           /\ \A i \in 1..Len(Param(p, "args").v) :
                (VmidOk(Param(p, "vmid")) /\ FirstFailure(Param(p, "args"), i))
                => resps[p][1].error =
                       <<"Disallowed qm create arg: ">>
                           \o PyStr(Param(p, "args").v[i].v[1])

\* a disallowed pair after an allowed pair has been rejected by its flag
C1_Witness ==
    \E p \in Procs :
        /\ Done(p) /\ Action(p) = "qm-create"
        /\ VmidOk(Param(p, "vmid"))
        /\ IsList(Param(p, "args")) /\ Len(Param(p, "args").v) = 2
        /\ FirstFailure(Param(p, "args"), 2)
        /\ runs[p] = 0
        /\ Contains(resps[p][1].error, Flag(k_unsafe))

\* the raw vmid is no integer, or an integer outside the configured range
VmidInvalid(x) ==
    /\ x # Absent
    /\ \/ ~VmidParses(x)
       \/ VmidValue(x) < VMID_MIN
       \/ VmidValue(x) > VMID_MAX

\* C2: in each of the nine actions the vmid is the first parameter checked;
\* with a vmid that is no integer or is out of range no argv is built, the
\* executor is not invoked and the dispatch fails; an argv handed to the
\* executor carries a validated vmid.
C2_VmidValidatedFirst ==
    \A p \in Procs :
        (Started(p) /\ Action(p) \in ActionNames)
        => /\ VmidInvalid(Param(p, "vmid"))
                => (Rejected(p) /\ checks[p] = <<Chk("vmid", 0)>>)
           /\ Handed(p)
                => /\ VmidOk(Param(p, "vmid"))
                   /\ Len(checks[p]) >= 1
                   /\ checks[p][1] = Chk("vmid", 0)

C2_Witness ==
    \E p \in Procs :
        /\ Done(p) /\ Action(p) = "qm-destroy"
        /\ Param(p, "vmid") = JInt(1000)
        /\ runs[p] = 0
        /\ ~resps[p][1].ok

\* C3 as stated: the image_path of an argv handed to the executor by
\* qm-importdisk resolves to an existing regular file beneath an approved root.
C3_AsStated ==
    \A p \in Procs :
        (Handed(p) /\ Action(p) = "qm-importdisk")
        => /\ call[p].resolved # NoFile
           /\ Beneath(call[p].resolved)

\* no disk image is named by x: x is no string, does not begin with an
\* approved prefix, or names no existing regular file
BadPath(files, x) ==
    \/ ~IsStr(x)
    \/ ~(StartsWith(x.v, PrefixBlockhost) \/ StartsWith(x.v, PrefixTmp))
    \/ ~IsFile(files, x.v)

\* C4: a qm-importdisk request whose image_path does not begin with an approved
\* prefix, or names no regular file existing when the request is handled, is
\* answered ok:false without an executor invocation.
C4_BadPathRejected ==
    [][\A p \in Procs :
        (pc[p] = "idle" /\ pc'[p] # "idle"
            /\ req'[p].action = "qm-importdisk"
            /\ BadPath(fs, req'[p].params["image_path"]))
        => /\ pc'[p] = "done"
           /\ runs'[p] = 0
           /\ call'[p] = NoCall
           /\ Len(resps'[p]) = 1
           /\ ~resps'[p][1].ok]_vars

C4_Witness ==
    \E p \in Procs :
        /\ Done(p) /\ Action(p) = "qm-importdisk"
        /\ VmidOk(Param(p, "vmid"))
        /\ Param(p, "image_path") = JStr(p_tmp_x)
        /\ Param(p, "storage") = JStr(s_local)
        /\ probes[p] = <<p_tmp_x>>
        /\ runs[p] = 0
        /\ resps[p] = <<Fail(<<"Image not found: ">> \o p_tmp_x)>>

\* C5 as stated: every entry of an argv handed to the executor that derives
\* from the caller's params has passed a validator.
C5_AsStated ==
    \A p \in Procs :
        Handed(p) =>
            \A i \in 1..Len(call[p].argv) : call[p].prov[i] # "unvalidated"

\* C6: when the executor's result is no timeout, exit code 0 yields exactly
\* {ok: true, output: stdout}, and a non-zero exit code yields exactly
\* {ok: false, error: E} with E the stderr when non-empty and the stdout
\* otherwise.
C6_ResultMapping ==
    \A p \in Procs :
        (Done(p) /\ Handed(p) /\ ~result[p].timedOut)
        => /\ result[p].exitCode = 0
                => resps[p] = <<[ok |-> TRUE, output |-> result[p].stdout]>>
           /\ (result[p].exitCode # 0 /\ result[p].stderr # <<>>)
                => resps[p] = <<[ok |-> FALSE, error |-> result[p].stderr]>>
           /\ (result[p].exitCode # 0 /\ result[p].stderr = <<>>)
                => resps[p] = <<[ok |-> FALSE, error |-> result[p].stdout]>>

C6_Witness ==
    \E p \in Procs :
        /\ Done(p) /\ Handed(p) /\ Action(p) = "qm-importdisk"
        /\ result[p] = [exitCode |-> 1, stdout |-> t_out, stderr |-> <<>>,
                        timedOut |-> FALSE]
        /\ resps[p] = <<Fail(t_out)>>

WellFormed(r) ==
    /\ r.ok \in BOOLEAN
    /\ r.ok => DOMAIN r = {"ok", "output"}
    /\ ~r.ok => DOMAIN r = {"ok", "error"}

\* C7: a dispatch blocked in the executor ends; a dispatch that has ended has
\* produced exactly one response, and before that none; the response has the
\* key 'output' iff ok and the key 'error' iff not ok.
C7_OneResponse ==
    /\ [](\A p \in Procs :
            /\ Done(p) => (Len(resps[p]) = 1 /\ WellFormed(resps[p][1]))
            /\ ~Done(p) => resps[p] = <<>>)
    /\ \A p \in Procs : (pc[p] = "running") ~> (pc[p] = "done")

C7_Witness ==
    \E p \in Procs :
        /\ Done(p) /\ Action(p) = "qm-set"
        /\ Handed(p) /\ result[p].exitCode = 1
        /\ Len(resps[p]) = 1
        /\ DOMAIN resps[p][1] = {"ok", "error"}

\* the request of p omits a parameter its action requires
MissingRequired(p) ==
    \/ Action(p) \in ActionNames /\ Param(p, "vmid") = Absent
    \/ Action(p) = "qm-importdisk"
        /\ (Param(p, "image_path") = Absent \/ Param(p, "storage") = Absent)
    \/ Action(p) = "qm-set" /\ Param(p, "config") = Absent
    \/ Action(p) = "qm-update-gecos"
        /\ (Param(p, "username") = Absent \/ Param(p, "gecos") = Absent)

C9_Timeout ==
    /\ [](\A p \in Procs :
            (Done(p) /\ Handed(p) /\ result[p].timedOut)
            => /\ resps[p] = <<[ok |-> FALSE, error |-> TimedOutMsg]>>
               /\ resps[p][1].error # result[p].stdout
               /\ resps[p][1].error # result[p].stderr)
    /\ \A p \in Procs : (pc[p] = "running") ~> (pc[p] = "done")

C9_Witness ==
    \E p \in Procs :
        /\ Done(p) /\ Handed(p) /\ Action(p) = "qm-shutdown"
        /\ result[p].timedOut
        /\ result[p].stdout = t_out /\ result[p].stderr = t_err
        /\ resps[p] = <<Fail(TimedOutMsg)>>

\* the caller's pairs of p's request, as <<flag, value>> in the caller's order
CallerPairs(p) ==
    IF Action(p) = "qm-create" THEN
        LET args == Get(req[p].params, "args", JList(<<>>)).v
        IN  [i \in 1..Len(args) |-> <<args[i].v[1].v, PyStr(args[i].v[2])>>]
    ELSE
        LET items == Param(p, "config").v
        IN  [i \in 1..Len(items) |->
                <<<<"-", "-">> \o items[i][1].v, PyStr(items[i][2])>>]

\* C10: the argv handed to the executor by qm-create or qm-set is 'qm', the
\* subcommand, the vmid, and then the caller's pairs in the caller's order,
\* each as two consecutive entries: the flag, then the value.
C10_ArgvOrder ==
    \A p \in Procs :
        (Handed(p) /\ Action(p) \in {"qm-create", "qm-set"})
        => LET argv == call[p].argv
               pairs == CallerPairs(p)
           IN  /\ Len(argv) = 3 + 2 * Len(pairs)
               /\ argv[1] = <<"q", "m">>
               /\ argv[2] = IF Action(p) = "qm-create"
                            THEN <<"c", "r", "e", "a", "t", "e">>
                            ELSE <<"s", "e", "t">>
               /\ argv[3] = IntToStr(VmidValue(Param(p, "vmid")))
               /\ \A i \in 1..Len(pairs) :
                    /\ argv[2 + 2 * i] = pairs[i][1]
                    /\ argv[3 + 2 * i] = pairs[i][2]

C10_Witness ==
    \E p \in Procs :
        /\ Handed(p) /\ Action(p) = "qm-set"
        /\ Param(p, "config") =
               JDict(<<<<JStr(k_memory), JStr(s_2048)>>,
                       <<JStr(k_cores), JStr(s_2)>>>>)
        /\ SubSeq(call[p].argv, 4, 7) =
               <<Flag(k_memory), s_2048, Flag(k_cores), s_2>>

\* config is a mapping with a key outside QM_SET_ALLOWED_KEYS
HasDisallowedKey(config) ==
    IsDict(config)
        /\ \E i \in 1..Len(config.v) : config.v[i][1].v \notin QM_SET_ALLOWED_KEYS
\* item i carries the first key of config outside the allowlist
FirstDisallowedKey(config, i) ==
    /\ config.v[i][1].v \notin QM_SET_ALLOWED_KEYS
    /\ \A j \in 1..(i - 1) : config.v[j][1].v \in QM_SET_ALLOWED_KEYS

\* C11 as stated: every qm-set request whose config has a key outside
\* QM_SET_ALLOWED_KEYS fails as a whole, with an error naming a disallowed key
\* of the request, and the executor is not invoked.
C11_AsStated ==
    \A p \in Procs :
        (Started(p) /\ Action(p) = "qm-set"
            /\ HasDisallowedKey(Param(p, "config")))
        => /\ Rejected(p)
           /\ \E i \in 1..Len(Param(p, "config").v) :
                /\ Param(p, "config").v[i][1].v \notin QM_SET_ALLOWED_KEYS
                /\ Contains(resps[p][1].error, Param(p, "config").v[i][1].v)

\* C11 amended: every qm-set request whose config has a key outside
\* QM_SET_ALLOWED_KEYS fails as a whole and the executor is not invoked, so no
\* allowed key of it is applied; when the vmid is valid the error names the
\* first disallowed key.
C11_Amended ==
    \A p \in Procs :
        (Started(p) /\ Action(p) = "qm-set"
            /\ HasDisallowedKey(Param(p, "config")))
        => /\ Rejected(p)
           /\ \A i \in 1..Len(Param(p, "config").v) :
                (VmidOk(Param(p, "vmid"))
                    /\ FirstDisallowedKey(Param(p, "config"), i))
                => resps[p][1].error =
                       <<"Disallowed qm set key: ">> \o Param(p, "config").v[i][1].v

\* a config with an allowed key followed by a disallowed one has been rejected
C11_Witness ==
    \E p \in Procs :
        /\ Done(p) /\ Action(p) = "qm-set"
        /\ VmidOk(Param(p, "vmid"))
        /\ Param(p, "config") =
               JDict(<<<<JStr(k_memory), JStr(s_2048)>>,
                       <<JStr(k_unsafe), JStr(s_x)>>>>)
        /\ runs[p] = 0
        /\ Contains(resps[p][1].error, k_unsafe)

\* the whole of s is 'wallet=' and 1 to 128 alphanumeric characters, optionally
\* followed by ',nft=' and 1 to 10 digits
ExactGecos(s) ==
    /\ StartsWith(s, WalletPrefix)
    /\ LET body == SubSeq(s, Len(WalletPrefix) + 1, Len(s))
           commas == {i \in 1..Len(body) : body[i] = ","}
       IN  IF commas = {} THEN
               Len(body) >= 1 /\ Len(body) <= 128 /\ AllIn(body, Alnum)
           ELSE
           LET k == CHOOSE i \in commas : \A j \in commas : i <= j
               digits == SubSeq(body, k + 5, Len(body))
           IN  /\ k - 1 >= 1 /\ k - 1 <= 128
               /\ AllIn(SubSeq(body, 1, k - 1), Alnum)
               /\ SubSeq(body, k, k + 4) = <<",", "n", "f", "t", "=">>
               /\ Len(digits) >= 1 /\ Len(digits) <= 10
               /\ AllIn(digits, Digit)

\* C12 as stated: qm-update-gecos accepts a gecos iff the whole string has the
\* form wallet=<1-128 alphanumerics>[,nft=<1-10 digits>]; every other gecos,
\* one with an extra trailing newline included, is rejected with ok:false and
\* no executor invocation.
C12_AsStated ==
    \A p \in Procs :
        (Started(p) /\ Action(p) = "qm-update-gecos")
        => /\ ~(IsStr(Param(p, "gecos")) /\ ExactGecos(Param(p, "gecos").v))
                => Rejected(p)
           /\ (/\ IsStr(Param(p, "gecos")) /\ ExactGecos(Param(p, "gecos").v)
               /\ VmidOk(Param(p, "vmid"))
               /\ IsStr(Param(p, "username"))
               /\ USERNAME_RE(Param(p, "username").v))
                => Handed(p)

\* the fixed subcommand of a simple action
SubcommandOf(action) ==
    CASE action = "qm-start" -> <<"s", "t", "a", "r", "t">>
      [] action = "qm-stop" -> <<"s", "t", "o", "p">>
      [] action = "qm-shutdown" -> <<"s", "h", "u", "t", "d", "o", "w", "n">>
      [] action = "qm-destroy" -> <<"d", "e", "s", "t", "r", "o", "y">>
      [] action = "qm-template" -> <<"t", "e", "m", "p", "l", "a", "t", "e">>

\* C13: the argv a simple action hands to the executor is exactly 'qm', the
\* action's fixed subcommand and the vmid, followed by '--purge' for qm-destroy
\* and by nothing for the other simple actions.
C13_SimpleArgv ==
    \A p \in Procs :
        (Handed(p) /\ Action(p) \in SimpleActions)
        => call[p].argv =
               <<<<"q", "m">>, SubcommandOf(Action(p)),
                 IntToStr(VmidValue(Param(p, "vmid")))>>
               \o (IF Action(p) = "qm-destroy"
                   THEN <<<<"-", "-", "p", "u", "r", "g", "e">>>> ELSE <<>>)

C13_Witness ==
    \E p \in Procs :
        /\ Handed(p) /\ Action(p) = "qm-destroy"
        /\ Param(p, "vmid") = JInt(999)
        /\ call[p].argv = <<w_qm, w_destroy, <<"9", "9", "9">>, w_purge>>

\* what the handler of p's request does when it runs alone, for some state of
\* the file system
Alone(p, files) == Actions(files, Action(p), req[p].params)
AllFileSets == SUBSET (BaseFiles \cup VolatileFiles)

\* C14: under any interleaving of concurrent dispatches, the argv and the
\* response of each dispatch are those its own request and its own execution
\* result give when it runs alone, and a step of one dispatch leaves the state
\* of every other dispatch as it was.
C14_Independent ==
    /\ [](\A p \in Procs :
            /\ Handed(p) =>
                \E files \in AllFileSets :
                    /\ Alone(p, files).kind = "run"
                    /\ call[p].argv = Alone(p, files).argv
                    /\ call[p].timeout = Alone(p, files).timeout
            /\ (Done(p) /\ Handed(p)) =>
                LET t == run(result[p])
                IN  resps[p] = <<MapResult(t[1], t[2], t[3])>>
            /\ (Done(p) /\ ~Handed(p)) =>
                \E files \in AllFileSets :
                    \/ /\ Alone(p, files).kind = "return"
                       /\ resps[p] = <<Alone(p, files).resp>>
                    \/ /\ Alone(p, files).kind = "raise"
                       /\ resps[p] = <<ExcResponse(Alone(p, files).exc)>>)
    /\ [][\A q \in Procs :
            pc'[q] = pc[q]
            => /\ req'[q] = req[q] /\ call'[q] = call[q] /\ runs'[q] = runs[q]
               /\ resps'[q] = resps[q] /\ checks'[q] = checks[q]
               /\ probes'[q] = probes[q] /\ result'[q] = result[q]]_vars

\* two dispatches against the same vmid are blocked in the executor at once
C14_Witness ==
    \E p, q \in Procs :
        /\ p # q
        /\ pc[p] = "running" /\ pc[q] = "running"
        /\ Action(p) = "qm-start" /\ Action(q) = "qm-set"
        /\ Param(p, "vmid") = Param(q, "vmid")

\* the timeout the action passes to the executor for a valid vmid
TimeoutOf(action) ==
    Actions(BaseFiles, action, [NoParams EXCEPT !["vmid"] = JInt(VMID_MIN)]).timeout

\* C15 as stated: qm-start and qm-stop pass the same short timeout to the
\* executor, and qm-shutdown and qm-destroy each pass a timeout strictly
\* greater than it.
C15_AsStated ==
    \A p \in Procs :
        Handed(p)
        => /\ Action(p) \in {"qm-start", "qm-stop"}
                => /\ call[p].timeout = TimeoutOf("qm-start")
                   /\ call[p].timeout = TimeoutOf("qm-stop")
           /\ Action(p) \in {"qm-shutdown", "qm-destroy"}
                => /\ call[p].timeout > TimeoutOf("qm-start")
                   /\ call[p].timeout > TimeoutOf("qm-stop")

\* every parameter of request r passes its validation, with the files that exist
AllValid(files, r) ==
    /\ VmidOk(r.params["vmid"])
    /\ CASE r.action \in SimpleActions -> TRUE
         [] r.action = "qm-create" ->
                LET args == Get(r.params, "args", JList(<<>>))
                IN  IsList(args) /\ \A i \in 1..Len(args.v) : AllowedPair(args.v[i])
         [] r.action = "qm-importdisk" ->
                /\ ~BadPath(files, r.params["image_path"])
                /\ IsStr(r.params["storage"])
                /\ STORAGE_RE(r.params["storage"].v)
         [] r.action = "qm-set" ->
                /\ IsDict(r.params["config"])
                /\ Len(r.params["config"].v) > 0
                /\ ~HasDisallowedKey(r.params["config"])
         [] r.action = "qm-update-gecos" ->
                /\ IsStr(r.params["username"])
                /\ USERNAME_RE(r.params["username"].v)
                /\ IsStr(r.params["gecos"])
                /\ GECOS_RE(r.params["gecos"].v)
         [] OTHER -> FALSE

\* C16: a dispatch invokes the executor at most once; exactly once when every
\* parameter passes validation; and the return of the executor, whatever the
\* result, ends the dispatch without another invocation.
C16_NoRetry ==
    /\ [](\A p \in Procs : runs[p] <= 1)
    /\ [][\A p \in Procs :
            /\ (pc[p] = "idle" /\ pc'[p] # "idle" /\ AllValid(fs, req'[p]))
                => (runs'[p] = 1 /\ pc'[p] = "running")
            /\ pc[p] = "running"
                => (runs'[p] = 1 /\ pc'[p] \in {"running", "done"})]_vars

C16_Witness ==
    \E p \in Procs :
        /\ Done(p) /\ Action(p) = "qm-destroy"
        /\ runs[p] = 1
        /\ result[p].exitCode = 1 /\ ~result[p].timedOut
        /\ ~resps[p][1].ok

\* the checks of the items 1..n of field f, in order
ItemChecks(f, n) == [i \in 1..n |-> Chk(f, i)]

\* x fails the tests of image_path whatever files exist
StaticBadPath(x) ==
    \/ ~IsStr(x)
    \/ ~(StartsWith(x.v, PrefixBlockhost) \/ StartsWith(x.v, PrefixTmp))

UsernameBad(x) == ~(IsStr(x) /\ USERNAME_RE(x.v))
GecosBad(x) == ~(IsStr(x) /\ GECOS_RE(x.v))
StorageBad(x) == ~(IsStr(x) /\ STORAGE_RE(x.v))

\* C17: validation stops at the first failing field of the fixed order: the
\* vmid; then image_path before storage; username before gecos; the items of
\* args and of config in the caller's order.  The response reports that field
\* and no later field has been checked.
C17_FailFast ==
    \A p \in Procs :
        (Started(p) /\ Action(p) \in ActionNames /\ Param(p, "vmid") # Absent)
        => /\ ~VmidOk(Param(p, "vmid"))
                => /\ Rejected(p)
                   /\ checks[p] = <<Chk("vmid", 0)>>
                   /\ resps[p][1].error = <<"InvalidParameter: ", "vmid">>
           /\ (VmidOk(Param(p, "vmid")) /\ Action(p) = "qm-update-gecos")
                => /\ UsernameBad(Param(p, "username"))
                        => /\ Rejected(p)
                           /\ checks[p] = <<Chk("vmid", 0), Chk("username", 0)>>
                           /\ StartsWith(resps[p][1].error, <<"Invalid username: ">>)
                   /\ (~UsernameBad(Param(p, "username"))
                            /\ GecosBad(Param(p, "gecos")))
                        => /\ Rejected(p)
                           /\ checks[p] = <<Chk("vmid", 0), Chk("username", 0),
                                            Chk("gecos", 0)>>
                           /\ StartsWith(resps[p][1].error, <<"Invalid gecos: ">>)
           /\ (VmidOk(Param(p, "vmid")) /\ Action(p) = "qm-importdisk")
                => /\ StaticBadPath(Param(p, "image_path"))
                        => /\ Rejected(p)
                           /\ checks[p] = <<Chk("vmid", 0), Chk("image_path", 0)>>
                           /\ resps[p][1].error \in
                                {<<"image_path is required">>,
                                 <<"image_path must be under /var/lib/blockhost/ or /tmp/">>}
                   /\ (Rejected(p) /\ ~StaticBadPath(Param(p, "image_path")))
                        => \/ /\ checks[p] = <<Chk("vmid", 0), Chk("image_path", 0)>>
                              /\ StartsWith(resps[p][1].error, <<"Image not found: ">>)
                           \/ /\ checks[p] = <<Chk("vmid", 0), Chk("image_path", 0),
                                               Chk("storage", 0)>>
                              /\ StorageBad(Param(p, "storage"))
                              /\ StartsWith(resps[p][1].error,
                                            <<"Invalid storage name: ">>)
           /\ (VmidOk(Param(p, "vmid")) /\ Action(p) = "qm-create"
                    /\ IsList(Param(p, "args")))
                => \A i \in 1..Len(Param(p, "args").v) :
                    (/\ ~AllowedPair(Param(p, "args").v[i])
                     /\ \A j \in 1..(i - 1) : AllowedPair(Param(p, "args").v[j]))
                    => /\ Rejected(p)
                       /\ checks[p] = <<Chk("vmid", 0), Chk("args", 0)>>
                                          \o ItemChecks("args", i)
                       /\ \/ resps[p][1].error =
                                <<"Each arg must be [flag, value]: ">>
                                    \o PyStr(Param(p, "args").v[i])
                          \/ /\ DisallowedPair(Param(p, "args").v[i])
                             /\ resps[p][1].error =
                                    <<"Disallowed qm create arg: ">>
                                        \o PyStr(Param(p, "args").v[i].v[1])
                          \/ /\ DisallowedPair(Param(p, "args").v[i])
                             /\ ~Hashable(Param(p, "args").v[i].v[1])
                             /\ resps[p][1].error = <<"InvalidParameter: ", "args">>
           /\ (VmidOk(Param(p, "vmid")) /\ Action(p) = "qm-set"
                    /\ IsDict(Param(p, "config")))
                => \A i \in 1..Len(Param(p, "config").v) :
                    FirstDisallowedKey(Param(p, "config"), i)
                    => /\ Rejected(p)
                       /\ checks[p] = <<Chk("vmid", 0), Chk("config", 0)>>
                                          \o ItemChecks("config", i)
                       /\ resps[p][1].error =
                              <<"Disallowed qm set key: ">>
                                  \o Param(p, "config").v[i][1].v

\* username and gecos are both invalid: only the username is reported
C17_Witness ==
    \E p \in Procs :
        /\ Done(p) /\ Action(p) = "qm-update-gecos"
        /\ VmidOk(Param(p, "vmid"))
        /\ Param(p, "username") = JStr(s_Root)
        /\ Param(p, "gecos") = JStr(g_inject)
        /\ checks[p] = <<Chk("vmid", 0), Chk("username", 0)>>
        /\ resps[p] = <<Fail(<<"Invalid username: ">> \o s_Root)>>

\* C18 (as stated): every ok:false response, on every failure path of every
\* action (a validation failure; a non-zero exit with any combination of
\* empty and non-empty stdout and stderr), carries a non-empty error string.
C18_AsStated ==
    \A p \in Procs :
        \A i \in 1..Len(resps[p]) :
            ~resps[p][i].ok => Len(resps[p][i].error) > 0

\* an item of args that is not exactly a two-element list
NotAPair(x) == ~(IsList(x) /\ Len(x.v) = 2)

\* the same flag heads more than one pair of args
RepeatedFlag(args) ==
    \E i, j \in 1..Len(args.v) :
        /\ i < j
        /\ IsList(args.v[i]) /\ Len(args.v[i].v) = 2
        /\ IsList(args.v[j]) /\ Len(args.v[j].v) = 2
        /\ args.v[i].v[1] = args.v[j].v[1]

\* C19 (as stated): qm-create fails with an ok:false response and no executor
\* invocation whenever one flag gets several values, as an args item that is
\* not a two-element [flag, value] list or as one flag in more than one pair;
\* so no flag occurs more than once in an argv handed to the executor.
C19_AsStated ==
    \A p \in Procs :
        (Started(p) /\ Action(p) = "qm-create" /\ Param(p, "vmid") # Absent
            /\ IsList(Param(p, "args")))
        => /\ ((\E i \in 1..Len(Param(p, "args").v) :
                    NotAPair(Param(p, "args").v[i]))
                \/ RepeatedFlag(Param(p, "args")))
                => Rejected(p)
           /\ Handed(p)
                => \A i, j \in 1..Len(call[p].argv) :
                    (i < j /\ StartsWith(call[p].argv[i], <<"-", "-">>))
                    => call[p].argv[i] # call[p].argv[j]

HasPrefix(s) == StartsWith(s, PrefixBlockhost) \/ StartsWith(s, PrefixTmp)

PrefixError == Fail(<<"image_path must be under /var/lib/blockhost/ or /tmp/">>)

\* C20: qm-importdisk tests image_path for a non-empty string, then for an
\* approved prefix, then probes the file system, then tests the storage name,
\* then spawns the process.  The file system is never probed for a path without
\* an approved prefix, and the error for such a path is the same whatever
\* files exist.
C20_ImportdiskOrder ==
    \A p \in Procs :
        (Started(p) /\ Action(p) = "qm-importdisk" /\ VmidOk(Param(p, "vmid")))
        => LET x == Param(p, "image_path")
               chk1 == <<Chk("vmid", 0), Chk("image_path", 0)>>
               chk2 == Append(chk1, Chk("storage", 0))
           IN  /\ checks[p] \in {chk1, chk2}
               /\ (~IsStr(x) \/ x.v = <<>>)
                    => /\ Rejected(p) /\ checks[p] = chk1 /\ probes[p] = <<>>
                       /\ resps[p] = <<Fail(<<"image_path is required">>)>>
               /\ (IsStr(x) /\ x.v # <<>> /\ ~HasPrefix(x.v))
                    => /\ Rejected(p) /\ checks[p] = chk1 /\ probes[p] = <<>>
                       /\ resps[p] = <<PrefixError>>
                       /\ \A files \in AllFileSets :
                            handle_qm_importdisk(files, req[p].params)
                                = Returns(PrefixError, chk1, <<>>)
               /\ probes[p] # <<>>
                    => IsStr(x) /\ HasPrefix(x.v) /\ probes[p] = <<x.v>>
               /\ (IsStr(x) /\ x.v # <<>> /\ HasPrefix(x.v))
                    => probes[p] = <<x.v>>
               /\ checks[p] = chk2 => probes[p] = <<x.v>>
               /\ (Rejected(p) /\ checks[p] = chk2)
                    => resps[p] = <<Fail(<<"Invalid storage name: ">>
                                            \o PyStr(Get(req[p].params, "storage",
                                                         JStr(<<>>))))>>
               /\ (Rejected(p) /\ checks[p] = chk1 /\ probes[p] # <<>>)
                    => resps[p] = <<Fail(<<"Image not found: ">> \o x.v)>>
               /\ Handed(p) => checks[p] = chk2 /\ probes[p] = <<x.v>>

\* an existing file outside the approved prefixes is rejected without a probe
C20_Witness ==
    \E p \in Procs :
        /\ Done(p) /\ Action(p) = "qm-importdisk"
        /\ VmidOk(Param(p, "vmid"))
        /\ Param(p, "image_path") = JStr(p_etc_p)
        /\ IsFile(fs, p_etc_p)
        /\ probes[p] = <<>>
        /\ checks[p] = <<Chk("vmid", 0), Chk("image_path", 0)>>
        /\ resps[p] = <<PrefixError>>

====
